---- MODULE Spec2Model ----
(***************************************************************************)
(* The job lifecycle controller of meshroom (src/src/models/Job.cpp):      *)
(* one Job, the directories it stores its descriptor in, and the two       *)
(* worker programs it launches.  Every handler of Job.cpp is an operator   *)
(* on a "world" record [job, disk, log, ret]; the actions of the           *)
(* specification apply one handler each, with every slot the handler's     *)
(* signals invoke.                                                         *)
(***************************************************************************)
EXTENDS Integers, Sequences, FiniteSets, TLC

VARIABLES job, disk, call

vars == <<job, disk, call>>

(***************************************************************************)
(* Bounds of the model.                                                    *)
(***************************************************************************)
\* the resource collection holds at most MaxImages resources
MaxImages == 2
\* autoSaveOn() is called while a signal has fewer than MaxConn save() slots
MaxConn == 2

(***************************************************************************)
(* The values the environment draws from.                                  *)
(***************************************************************************)
Dirs == {"/p/r1", "/p/r2"}
Names == {"n1", "n2"}
Users == {"u1", "u2"}
Dates == {"t1", "t2"}
ImagePaths == {"/i/a", "/i/b"}
\* what the storage refuses during one handler: nothing, creating the job
\* directory, opening job.json for writing, creating build/
IOFaults == {"none", "mkpath", "open", "mkbuild"}
\* those of them save() meets
SaveFaults == {"none", "mkpath", "open"}
\* how a launched worker process ends
ProcessOutcomes == {"FailedToStart", "TimedOut", "CrashExit", "NormalExit"}

(***************************************************************************)
(* QUrl, as far as Job.cpp uses it.                                        *)
(***************************************************************************)
EmptyUrl == [scheme |-> "", path |-> ""]

fromLocalFile(p) == IF p = "" THEN EmptyUrl ELSE [scheme |-> "file", path |-> p]

toLocalFile(u) == IF u.scheme = "file" THEN u.path ELSE ""

(***************************************************************************)
(* JSON values: a number is kept in hundredths (0.42 is 42, 2 is 200).     *)
(***************************************************************************)
JsonDouble(n) == [t |-> "double", v |-> n]

JsonString(s) == [t |-> "string", v |-> s]

JsonArray(a) == [t |-> "array", v |-> a]

\* QJsonValue::toDouble(): the number, or the default 0 for another type
toDouble(j) == IF j.t = "double" THEN j.v ELSE 0

\* QJsonValue::toInt(): the number when it is whole, else the default 0
toInt(j) == IF j.t = "double" /\ j.v % 100 = 0 THEN j.v \div 100 ELSE 0

\* QJsonValue::toString(): the string, or the null string for another type
toString(j) == IF j.t = "string" THEN j.v ELSE ""

\* QJsonValue::toArray(): the array, or the empty array for another type
toArray(j) == IF j.t = "array" THEN j.v ELSE <<>>

\* obj[key] of a QJsonObject: the value, or an undefined value when absent
JsonUndefined == [t |-> "undefined", v |-> 0]

value(obj, key) == IF key \in DOMAIN obj THEN obj[key] ELSE JsonUndefined

\* a parsed document: the outcome of QJsonDocument::fromJson and the object
ParseError == [parse |-> "error", obj |-> <<>>]

JsonDocument(obj) == [parse |-> "ok", obj |-> obj]

(***************************************************************************)
(* Attribute and Step (Attribute.cpp, Step.cpp).  A variant carries its    *)
(* type; QJsonValue::fromVariant and toVariant change the type, not the    *)
(* value: an int comes back as a double, a QStringList as a QVariantList.  *)
(***************************************************************************)
Variant(type, v) == [type |-> type, v |-> v]

fromVariant(q) ==
    CASE q.type \in {"int", "double"} -> JsonDouble(q.v * 100)
      [] q.type = "QString" -> JsonString(q.v)
      [] q.type \in {"QStringList", "QVariantList"} ->
            JsonArray([i \in DOMAIN q.v |-> JsonString(q.v[i])])
      [] OTHER -> JsonUndefined

toVariant(j) ==
    CASE j.t = "double" -> Variant("double", j.v \div 100)
      [] j.t = "string" -> Variant("QString", j.v)
      [] j.t = "array" -> Variant("QVariantList", [i \in DOMAIN j.v |-> toString(j.v[i])])
      [] OTHER -> Variant("invalid", 0)

StepNames == <<"feature_detection", "meshing", "sfm">>

\* the one attribute key of each step of the default graph
AttributeKey == [feature_detection |-> "describerPreset", meshing |-> "scale",
                 sfm |-> "initial_pair"]

createDefaultGraph ==
    [feature_detection |-> Variant("QString", "Normal"),
     meshing |-> Variant("int", 2),
     sfm |-> Variant("QStringList", <<"", "">>)]

\* the values the user interface sets an attribute to
AttributeValues ==
    [feature_detection |-> {Variant("QString", "Normal"), Variant("QString", "High")},
     meshing |-> {Variant("int", 2), Variant("int", 3)},
     sfm |-> {Variant("QStringList", <<"", "">>),
              Variant("QStringList", <<"/i/a", "/i/b">>)}]

\* Step::serializeToJSON: the step's name mapped to its attributes' key -> value
Step_serializeToJSON(steps, s) == [k \in {AttributeKey[s]} |-> fromVariant(steps[s])]

\* Step::deserializeFromJSON: the attribute values found under the step's name
Step_deserializeFromJSON(steps, s, stepsObject) ==
    IF s \notin DOMAIN stepsObject THEN steps[s]
    ELSE LET attributes == stepsObject[s]
         IN IF AttributeKey[s] \in DOMAIN attributes
            THEN toVariant(attributes[AttributeKey[s]])
            ELSE steps[s]

(***************************************************************************)
(* The world a handler runs in.                                            *)
(***************************************************************************)
World == [job |-> job, disk |-> disk, log |-> <<>>, ret |-> "void"]

Event(e, arg) == [e |-> e, arg |-> arg]

logged(w, e, arg) == [w EXCEPT !.log = Append(@, Event(e, arg))]

returns(w, r) == [w EXCEPT !.ret = r]

jobDir(w) == toLocalFile(w.job.url)

\* <storage location>/job.json
descriptorPath(w) == <<jobDir(w), "job.json">>

NoDir == [exists |-> FALSE, json |-> <<>>, build |-> FALSE]

(***************************************************************************)
(* Job::isStoredOnDisk, Job::isStarted, Job::isStartable                   *)
(***************************************************************************)
isStoredOnDisk(w) == w.disk[jobDir(w)].json # <<>>

isStarted(w) == w.disk[jobDir(w)].build /\ isStoredOnDisk(w)

isStartable(w) == ~(Len(w.job.images) < 2)

(***************************************************************************)
(* Job::serializeToJSON                                                    *)
(***************************************************************************)
\* Resource::serializeToJSON appends the resource's location to the array
Resource_serializeToJSON(r) == JsonString(toLocalFile(r))

serializeToJSON(w) ==
    [date |-> JsonString(w.job.date),
     user |-> JsonString(w.job.user),
     name |-> JsonString(w.job.name),
     paths |-> [build |-> JsonString(jobDir(w) \o "/build"),
                match |-> JsonString(jobDir(w) \o "/build/matches")],
     resources |-> JsonArray([i \in DOMAIN w.job.images |->
                                 Resource_serializeToJSON(w.job.images[i])]),
     steps |-> [s \in {StepNames[i] : i \in DOMAIN StepNames} |->
                   Step_serializeToJSON(w.job.steps, s)]]

(***************************************************************************)
(* Job::save                                                               *)
(***************************************************************************)
\* the guard of save(): a mutated variant that never refuses
saveRefused_never(w) == FALSE

\* save() returns at once when the job is already started
saveRefused(w) == isStarted(w)

\* QFile::open(WriteOnly) that fails: a mutated variant that has truncated
\* the file
openFailed_truncated(w) == [w EXCEPT !.disk[jobDir(w)].json = <<>>]

\* QFile::open(WriteOnly) that fails leaves the file as it is
openFailed(w) == w

save(w, io) ==
    LET w0 == logged(w, "save", <<IF isStarted(w) THEN "started" ELSE "notStarted">>)
        d == jobDir(w)
    IN IF saveRefused(w) THEN returns(w0, "false")
       ELSE IF ~w.disk[d].exists /\ io = "mkpath" THEN returns(w0, "false")
       ELSE LET w1 == [w0 EXCEPT !.disk[d].exists = TRUE]
            IN IF io = "open" THEN returns(openFailed(w1), "false")
               ELSE returns(logged([w1 EXCEPT !.disk[d].json =
                                        <<JsonDocument(serializeToJSON(w))>>],
                                   "write", descriptorPath(w)), "true")

(***************************************************************************)
(* JobModel::setData pushes a role's value into the job through the        *)
(* setters Job::setCompletion, Job::setStatus, Job::setThumbnail.          *)
(***************************************************************************)
setCompletion(w, c) == [w EXCEPT !.job.completion = c]

setStatus(w, s) == [w EXCEPT !.job.status = s]

setThumbnail(w, u) == [w EXCEPT !.job.thumbnail = u]

JobModel_setData(w, v, role) ==
    CASE role = "CompletionRole" -> setCompletion(w, v)
      [] role = "StatusRole" -> setStatus(w, v)
      [] role = "ThumbnailRole" -> setThumbnail(w, v)
      [] OTHER -> w

\* Job::model(): the collection the job's model index belongs to, if any
model(w) == w.job.modelIndex

(***************************************************************************)
(* Job::selectThumbnail                                                    *)
(***************************************************************************)
selectThumbnail(w) ==
    IF ~model(w) THEN w
    ELSE JobModel_setData(logged(w, "selectThumbnail", <<>>),
                          IF Len(w.job.images) > 0 THEN w.job.images[1] ELSE EmptyUrl,
                          "ThumbnailRole")

(***************************************************************************)
(* Signals: the slots connected to a signal run in connection order.       *)
(***************************************************************************)
slot(s, w, io) == IF s = "save" THEN returns(save(w, io), w.ret) ELSE selectThumbnail(w)

RECURSIVE emit(_, _, _)
emit(slots, w, io) ==
    IF slots = <<>> THEN w ELSE emit(Tail(slots), slot(Head(slots), w, io), io)

connect(slots, s) == Append(slots, s)

disconnect(slots, s) == SelectSeq(slots, LAMBDA x : x # s)

(***************************************************************************)
(* Job::setUrl, setName, setDate, setUser                                  *)
(***************************************************************************)
setUrl(w, u, io) ==
    IF w.job.url = u THEN w
    ELSE emit(w.job.dataChanged, [w EXCEPT !.job.url = u], io)

setName(w, n, io) ==
    IF w.job.name = n THEN w
    ELSE emit(w.job.dataChanged, [w EXCEPT !.job.name = n], io)

setDate(w, t, io) ==
    IF w.job.date = t THEN w
    ELSE emit(w.job.dataChanged, [w EXCEPT !.job.date = t], io)

setUser(w, u, io) ==
    IF w.job.user = u THEN w
    ELSE emit(w.job.dataChanged, [w EXCEPT !.job.user = u], io)

setModelIndex(w) == [w EXCEPT !.job.modelIndex = TRUE]

(***************************************************************************)
(* ResourceModel::addResource and AttributeModel::setData: the resource    *)
(* is appended (the value set) and the collection's signal is emitted.     *)
(***************************************************************************)
addResource(w, r, io) ==
    emit(w.job.countChanged, [w EXCEPT !.job.images = Append(@, r)], io)

setAttribute(w, s, v, io) ==
    emit(w.job.attributesChanged, [w EXCEPT !.job.steps[s] = v], io)

(***************************************************************************)
(* Job::autoSaveOn, Job::autoSaveOff                                       *)
(***************************************************************************)
autoSaveOn(w) ==
    [w EXCEPT !.job.dataChanged = connect(@, "save"),
              !.job.countChanged = connect(@, "save"),
              !.job.attributesChanged = connect(@, "save")]

\* a mutated variant that leaves save() connected
autoSaveOff_connected(w) == w

autoSaveOff(w) ==
    [w EXCEPT !.job.dataChanged = disconnect(@, "save"),
              !.job.countChanged = disconnect(@, "save"),
              !.job.attributesChanged = disconnect(@, "save")]

(***************************************************************************)
(* Job::Job                                                                *)
(***************************************************************************)
NewJob ==
    LET j == [url |-> fromLocalFile("/p/r1"), name |-> "n1", user |-> "u1",
              date |-> "t1", completion |-> 0, status |-> -1,
              thumbnail |-> EmptyUrl, modelIndex |-> FALSE, images |-> <<>>,
              steps |-> createDefaultGraph, dataChanged |-> <<>>,
              countChanged |-> <<>>, attributesChanged |-> <<>>]
        on == autoSaveOn([job |-> j]).job
    IN [on EXCEPT !.countChanged = connect(@, "selectThumbnail")]

(***************************************************************************)
(* Job::readProcessOutput: the slot of the status worker's finished()      *)
(***************************************************************************)
\* the standard outputs the status worker is drawn to write
ReportValues == {JsonDouble(42), JsonDouble(200)}

ReportObjects == UNION {[K -> ReportValues] : K \in SUBSET {"completion", "status"}}

StatusOutputs == {ParseError} \cup {JsonDocument(o) : o \in ReportObjects}

\* how the status worker ends, with what it wrote when it exits normally
StatusResults ==
    {[outcome |-> o, stdout |-> ParseError] : o \in {"FailedToStart", "TimedOut", "CrashExit"}}
       \cup {[outcome |-> "NormalExit", stdout |-> out] : out \in StatusOutputs}

\* the check of the required fields: a mutated variant that asks for one only
missingValues_both(json) == ~("completion" \in DOMAIN json) /\ ~("status" \in DOMAIN json)

missingValues(json) == ~("completion" \in DOMAIN json) \/ ~("status" \in DOMAIN json)

\* the branch of an abnormal exit: a mutated variant that also resets completion
abnormalExit_reset(w) ==
    JobModel_setData(JobModel_setData(w, 0, "CompletionRole"), 4, "StatusRole")

abnormalExit(w) == JobModel_setData(w, 4, "StatusRole")

\* the update from a complete report: a mutated variant that reads both roles
\* from the status field
applyReport_swapped(w, json) ==
    JobModel_setData(JobModel_setData(w, toDouble(value(json, "status")), "CompletionRole"),
                     toInt(value(json, "status")), "StatusRole")

applyReport(w, json) ==
    JobModel_setData(JobModel_setData(w, toDouble(value(json, "completion")), "CompletionRole"),
                     toInt(value(json, "status")), "StatusRole")

readProcessOutput(w, exitStatus, stdout) ==
    LET w0 == logged(w, "readProcessOutput", <<exitStatus, stdout>>)
    IN IF exitStatus # "NormalExit" THEN abnormalExit(w0)
       ELSE IF stdout.parse # "ok" THEN JobModel_setData(w0, 4, "StatusRole")
       ELSE IF missingValues(stdout.obj) THEN w0
       ELSE applyReport(w0, stdout.obj)

(***************************************************************************)
(* QProcess: start() followed by waitForFinished().  waitForFinished()     *)
(* is true when the process has finished, whatever its exit status, and    *)
(* false when it could not be started or has not finished in time; the     *)
(* finished() signal is emitted for a process that finished, and for one   *)
(* that is killed, still running, when the QProcess goes out of scope.     *)
(***************************************************************************)
waitForFinished(outcome) == outcome \in {"NormalExit", "CrashExit"}

exitStatusOf(outcome) == IF outcome = "NormalExit" THEN "NormalExit" ELSE "CrashExit"

emitsFinished(outcome) == outcome # "FailedToStart"

(***************************************************************************)
(* Job::refresh                                                            *)
(***************************************************************************)
\* the branch of a job that is not started: a mutated variant that reports Error
refreshNotStarted_error(w) == JobModel_setData(w, 4, "StatusRole")

refreshNotStarted(w) == JobModel_setData(w, -1, "StatusRole")

\* a mutated variant that delivers the worker's report before the request
\* is made, as a completion left over from an earlier request would be
refresh_leftover(w, r) ==
    IF ~isStarted(w) THEN refreshNotStarted(logged(w, "refresh", <<>>))
    ELSE logged(logged(readProcessOutput(w, exitStatusOf(r.outcome), r.stdout),
                       "refresh", <<>>), "statusWorker", descriptorPath(w))

refresh(w, r) ==
    LET w0 == logged(w, "refresh", <<>>)
    IN IF ~isStarted(w) THEN refreshNotStarted(w0)
       ELSE LET w1 == logged(w0, "statusWorker", descriptorPath(w))
            IN IF emitsFinished(r.outcome)
               THEN readProcessOutput(w1, exitStatusOf(r.outcome), r.stdout)
               ELSE w1

(***************************************************************************)
(* Job::start                                                              *)
(***************************************************************************)
\* the wait for the start worker: a mutated variant that takes every end of
\* the process for a failure
startFinished_never(outcome) == FALSE

startFinished(outcome) == waitForFinished(outcome)

\* the startability check in start(): a mutated variant that accepts one resource
startRefused_one(w) == Len(w.job.images) < 1

startRefused(w) == ~isStartable(w)

start(w, io, startOutcome, r) ==
    LET w0 == logged(w, "start", <<>>)
        w1 == save(w0, io)
        d == jobDir(w)
    IN IF w1.ret # "true" THEN returns(w1, "false")
       ELSE IF startRefused(w1) THEN returns(w1, "false")
       ELSE IF ~w1.disk[d].build /\ io = "mkbuild" THEN returns(w1, "false")
       ELSE LET w2 == logged([w1 EXCEPT !.disk[d].build = TRUE], "mkbuild", <<d, "build">>)
                w3 == logged(logged(w2, "startWorker", descriptorPath(w)),
                             "startWorkerEnd", <<startOutcome>>)
            IN IF ~startFinished(startOutcome)
               THEN returns(logged([w3 EXCEPT !.disk[d].build = FALSE],
                                   "rmbuild", <<d, "build">>), "false")
               ELSE returns(refresh(w3, r), "true")

(***************************************************************************)
(* Job::erase                                                              *)
(***************************************************************************)
erase(w) ==
    IF w.disk[jobDir(w)].exists
    THEN logged([w EXCEPT !.disk[jobDir(w)] = NoDir], "removeRecursively", <<jobDir(w)>>)
    ELSE w

(***************************************************************************)
(* Job::deserializeFromJSON                                                *)
(***************************************************************************)
\* a mutated variant that replaces the resources of the job by the loaded ones
addResources_replacing(w, resourceArray, io) ==
    [w EXCEPT !.job.images = [i \in DOMAIN resourceArray |->
                                 fromLocalFile(toString(resourceArray[i]))]]

RECURSIVE addResources(_, _, _)
addResources(w, resourceArray, io) ==
    IF resourceArray = <<>> THEN w
    ELSE addResources(addResource(w, fromLocalFile(toString(Head(resourceArray))), io),
                      Tail(resourceArray), io)

\* the read of the global settings: a mutated variant that leaves the name alone
readSettings_noName(w, obj) ==
    IF "user" \in DOMAIN obj THEN [w EXCEPT !.job.user = toString(obj["user"])] ELSE w

readSettings(w, obj) ==
    LET w1 == IF "user" \in DOMAIN obj
              THEN [w EXCEPT !.job.user = toString(obj["user"])] ELSE w
    IN IF "name" \in DOMAIN obj
       THEN [w1 EXCEPT !.job.name = toString(obj["name"])] ELSE w1

deserializeFromJSON(w, obj, io) ==
    LET w0 == autoSaveOff(w)
        w1 == readSettings(w0, obj)
        w2 == addResources(w1, toArray(value(obj, "resources")), io)
        stepsObject == IF "steps" \in DOMAIN obj THEN obj["steps"] ELSE <<>>
        w3 == [w2 EXCEPT !.job.steps =
                  [s \in DOMAIN w2.job.steps |->
                      Step_deserializeFromJSON(w2.job.steps, s, stepsObject)]]
    IN autoSaveOn(w3)

(***************************************************************************)
(* Job::load(const QUrl&), Job::load(const Job&)                           *)
(***************************************************************************)
load(w0, u, io) ==
    LET d == toLocalFile(u)
        w == logged(w0, "load", <<d>>)
    IN IF ~w.disk[d].exists THEN returns(w, "false")
       ELSE LET w1 == [w EXCEPT !.job.url = u]
            IN IF w.disk[d].json = <<>> THEN returns(w1, "false")
               ELSE IF w.disk[d].json[1].parse # "ok" THEN returns(w1, "false")
               ELSE returns(deserializeFromJSON(w1, w.disk[d].json[1].obj, io), "true")

\* the jobs load(const Job&) is drawn to copy from: their resources, steps
\* and thumbnail
OtherJobs ==
    {[images |-> <<>>, steps |-> createDefaultGraph, thumbnail |-> EmptyUrl],
     [images |-> <<fromLocalFile("/i/b")>>,
      steps |-> [createDefaultGraph EXCEPT !.meshing = Variant("int", 3)],
      thumbnail |-> fromLocalFile("/i/b")]}

\* the copies are new objects: no slot of this job is connected to them
loadJob(w, other) ==
    returns([w EXCEPT !.job.images = other.images,
                      !.job.steps = other.steps,
                      !.job.thumbnail = other.thumbnail,
                      !.job.countChanged = <<>>,
                      !.job.attributesChanged = <<>>], "true")

(***************************************************************************)
(* The specification: one action per operation of the controller.          *)
(***************************************************************************)
Init ==
    /\ job = NewJob
    /\ disk = [d \in Dirs |-> NoDir]
    /\ call = [op |-> "Job", ret |-> "void", started |-> FALSE, log |-> <<>>]

\* the state after handler `op` has run from the current state and left `w`
Done(op, w) ==
    /\ job' = w.job
    /\ disk' = w.disk
    /\ call' = [op |-> op, ret |-> w.ret, started |-> isStarted(World), log |-> w.log]

SetModelIndex == ~job.modelIndex /\ Done("setModelIndex", setModelIndex(World))

SetUrl == \E d \in Dirs, io \in SaveFaults : Done("setUrl", setUrl(World, fromLocalFile(d), io))

SetName == \E n \in Names, io \in SaveFaults : Done("setName", setName(World, n, io))

SetDate == \E t \in Dates, io \in SaveFaults : Done("setDate", setDate(World, t, io))

SetUser == \E u \in Users, io \in SaveFaults : Done("setUser", setUser(World, u, io))

AddResource ==
    /\ Len(job.images) < MaxImages
    /\ \E p \in ImagePaths, io \in SaveFaults :
          Done("addResource", addResource(World, fromLocalFile(p), io))

SetAttribute ==
    \E s \in DOMAIN job.steps, io \in SaveFaults : \E v \in AttributeValues[s] :
        /\ v # job.steps[s]
        /\ Done("setAttribute", setAttribute(World, s, v, io))

AutoSaveOn == Len(job.dataChanged) < MaxConn /\ Done("autoSaveOn", autoSaveOn(World))

AutoSaveOff == Done("autoSaveOff", autoSaveOff(World))

Save == \E io \in SaveFaults : Done("save", save(World, io))

\* start() and refresh() reach the job through its row of the JobModel:
\* both dereference model() unconditionally
Start ==
    /\ model(World)
    /\ \E io \in IOFaults, so \in ProcessOutcomes :
          LET r0 == CHOOSE r \in StatusResults : TRUE
              launches == \E e \in DOMAIN start(World, io, so, r0).log :
                              start(World, io, so, r0).log[e].e = "statusWorker"
          IN \E r \in IF launches THEN StatusResults ELSE {r0} :
                Done("start", start(World, io, so, r))

Refresh ==
    /\ model(World)
    /\ \E r \in IF isStarted(World) THEN StatusResults
                 ELSE {CHOOSE r0 \in StatusResults : TRUE} :
          Done("refresh", refresh(World, r))

Erase == Done("erase", erase(World))

Load ==
    \E d \in Dirs, io \in SaveFaults :
        /\ disk[d].json # <<>> /\ disk[d].json[1].parse = "ok"
              => Len(job.images) + Len(toArray(value(disk[d].json[1].obj, "resources")))
                    <= MaxImages
        /\ Done("load", load(World, fromLocalFile(d), io))

LoadJob == \E other \in OtherJobs : Done("loadJob", loadJob(World, other))

\* every operation of the controller
Next ==
    \/ SetModelIndex
    \/ SetUrl
    \/ SetName
    \/ SetDate
    \/ SetUser
    \/ AddResource
    \/ SetAttribute
    \/ AutoSaveOn
    \/ AutoSaveOff
    \/ Save
    \/ Start
    \/ Refresh
    \/ Erase
    \/ Load
    \/ LoadJob

\* The state space of Next is the product of every field's values with
\* every descriptor the storage may still hold, so each specification below
\* takes the operations one group of properties is about.
Lifecycle ==
    \/ SetModelIndex
    \/ AddResource
    \/ SetName
    \/ Save
    \/ Start
    \/ Refresh
    \/ Erase

\* the job's life from its construction: resources, a name, save, start,
\* refresh, erase
Spec == Init /\ [][Lifecycle]_vars

(***************************************************************************)
(* The resource collection of a job that is a row of the JobModel.         *)
(***************************************************************************)
InitBound ==
    /\ job = setModelIndex([job |-> NewJob]).job
    /\ disk = [d \in Dirs |-> NoDir]
    /\ call = [op |-> "setModelIndex", ret |-> "void", started |-> FALSE, log |-> <<>>]

Resources ==
    \/ AddResource
    \/ Save
    \/ Load
    \/ LoadJob

SpecResources == InitBound /\ [][Resources]_vars

(***************************************************************************)
(* The round trip of the descriptor: a job in any state is saved, and a    *)
(* newly created job loads what was written.                               *)
(***************************************************************************)
RoundTripJobs ==
    {[NewJob EXCEPT !.name = n, !.user = u, !.images = i, !.steps = st] :
        n \in Names, u \in Users,
        i \in UNION {[1..k -> {fromLocalFile(p) : p \in ImagePaths}] : k \in 0..MaxImages},
        st \in [feature_detection : AttributeValues.feature_detection,
                 meshing : AttributeValues.meshing, sfm : AttributeValues.sfm]}

InitRoundTrip ==
    /\ job \in RoundTripJobs
    /\ disk = [d \in Dirs |-> NoDir]
    /\ call = [op |-> "Job", ret |-> "void", started |-> FALSE, log |-> <<>>]

\* Job(project) followed by load(url) on the new job
Reopen ==
    \E d \in Dirs :
        Done("reopen", load([World EXCEPT !.job = NewJob], fromLocalFile(d), "none"))

RoundTrip ==
    \/ Save
    \/ Reopen

SpecRoundTrip == InitRoundTrip /\ [][RoundTrip]_vars

(***************************************************************************)
(* What the claims read of a handler's run.                                *)
(***************************************************************************)
HasEvent(log, e) == \E i \in DOMAIN log : log[i].e = e

\* the events named e1, e2, e3, e4 occur in this order
InOrder(log, e1, e2, e3, e4) ==
    \E i, j, k, l \in DOMAIN log :
        /\ i < j /\ j < k /\ k < l
        /\ log[i].e = e1 /\ log[j].e = e2 /\ log[k].e = e3 /\ log[l].e = e4

\* the status reports the completion callback received during the run
Reports(log) == {log[i].arg : i \in {k \in DOMAIN log : log[k].e = "readProcessOutput"}}

Descriptor == disk[toLocalFile(job.url)].json

(***************************************************************************)
(* C1: whenever isStarted() is true, a call to save() returns false and    *)
(* leaves the descriptor file as it was, whatever the in-memory state is:  *)
(* the direct call changes nothing, and no save() that a handler invokes   *)
(* while the job is started goes on to write the descriptor.               *)
(***************************************************************************)
C1_SaveOfStartedJobIsRefused ==
    [][/\ (call'.op = "save" /\ isStarted(World))
            => (call'.ret = "false" /\ disk' = disk /\ job' = job)
       /\ \A i \in DOMAIN call'.log :
             call'.log[i] = Event("save", <<"started">>)
                => (i = Len(call'.log) \/ call'.log[i + 1].e # "write")]_vars

\* save() was called on a started job whose in-memory state differs from
\* the descriptor on disk
C1_Witness ==
    /\ call.op = "save" /\ call.started /\ call.ret = "false"
    /\ isStarted(World)
    /\ Descriptor # <<JsonDocument(serializeToJSON(World))>>

(***************************************************************************)
(* C2: isStartable() is false with 0 or 1 resources and true with 2 or     *)
(* more; start() on a job that is not started and has fewer than 2         *)
(* resources returns false, never invokes the start worker, leaves no      *)
(* build/ directory, and the job is still not started.                     *)
(***************************************************************************)
C2_StartNeedsTwoResources ==
    /\ isStartable(World) <=> Len(job.images) >= 2
    /\ (call.op = "start" /\ ~call.started /\ Len(job.images) < 2)
          => /\ call.ret = "false"
             /\ ~HasEvent(call.log, "startWorker")
             /\ ~disk[toLocalFile(job.url)].build
             /\ ~isStarted(World)

\* start() was called on a job with one resource and saved it
C2_Witness ==
    /\ call.op = "start" /\ ~call.started /\ Len(job.images) = 1
    /\ HasEvent(call.log, "write")

(***************************************************************************)
(* C3: for a job that is not started and has at least 2 resources, when    *)
(* the save and the creation of build/ succeed and the start worker exits  *)
(* normally, start() returns true after writing job.json, then creating    *)
(* build/, then invoking the start worker with the descriptor path, then   *)
(* triggering refresh(); afterwards isStarted() is true.                   *)
(***************************************************************************)
C3_StartOrder ==
    (/\ call.op = "start" /\ ~call.started /\ Len(job.images) >= 2
     /\ HasEvent(call.log, "write") /\ HasEvent(call.log, "mkbuild")
     /\ \E i \in DOMAIN call.log : call.log[i] = Event("startWorkerEnd", <<"NormalExit">>))
       => /\ call.ret = "true"
          /\ InOrder(call.log, "write", "mkbuild", "startWorker", "refresh")
          /\ \E i \in DOMAIN call.log :
                call.log[i] = Event("startWorker", <<toLocalFile(job.url), "job.json">>)
          /\ \A i \in DOMAIN call.log :
                call.log[i].e = "write" => call.log[i].arg = <<toLocalFile(job.url), "job.json">>
          /\ isStarted(World)

\* start() returned true for a job with two resources
C3_Witness ==
    /\ call.op = "start" /\ ~call.started /\ call.ret = "true"
    /\ Len(job.images) >= 2
    /\ \E i \in DOMAIN call.log : call.log[i] = Event("startWorkerEnd", <<"NormalExit">>)

(***************************************************************************)
(* C4: when the start worker exits abnormally or fails to launch during    *)
(* start(), build/ is removed again, start() returns false and the job is  *)
(* saved but not started.                                                  *)
(***************************************************************************)
C4_StartFailureRollsBack ==
    (/\ call.op = "start"
     /\ \E i \in DOMAIN call.log :
           /\ call.log[i].e = "startWorkerEnd"
           /\ call.log[i].arg[1] \in {"CrashExit", "FailedToStart"})
       => /\ call.ret = "false"
          /\ Descriptor # <<>>
          /\ ~disk[toLocalFile(job.url)].build
          /\ ~isStarted(World)

(***************************************************************************)
(* C5: when the status worker ends abnormally, or normally with an output  *)
(* that is not JSON, the completion callback sets the status to Error (4)  *)
(* and leaves the completion as it was.                                    *)
(***************************************************************************)
C5_FailedReportSetsError ==
    [][(\E r \in Reports(call'.log) : r[1] # "NormalExit" \/ r[2].parse # "ok")
          => (job'.status = 4 /\ job'.completion = job.completion)]_vars

\* the callback of a failed status worker ran on a job with a reported
\* completion
C5_Witness ==
    /\ \E r \in Reports(call.log) : r[1] # "NormalExit"
    /\ job.status = 4 /\ job.completion # 0

C7_IncompleteReportIsNoOp ==
    [][(\E r \in Reports(call'.log) :
           /\ r[1] = "NormalExit" /\ r[2].parse = "ok"
           /\ ~({"completion", "status"} \subseteq DOMAIN r[2].obj))
          => (job'.status = job.status /\ job'.completion = job.completion)]_vars

\* a report with `completion` alone reached the callback of a started job
C7_Witness ==
    /\ call.op = "refresh" /\ call.started
    /\ \E r \in Reports(call.log) :
          r[1] = "NormalExit" /\ r[2].parse = "ok" /\ DOMAIN r[2].obj = {"completion"}
    /\ job.status = 2

(***************************************************************************)
(* C8: refresh() on a job that is not started sets the status to -1,       *)
(* launches no status worker and changes nothing else.                     *)
(***************************************************************************)
C8_RefreshOfUnstartedJob ==
    [][(call'.op = "refresh" /\ ~isStarted(World))
          => /\ job' = [job EXCEPT !.status = -1]
             /\ disk' = disk
             /\ ~HasEvent(call'.log, "statusWorker")
             /\ ~HasEvent(call'.log, "readProcessOutput")]_vars

\* refresh() reset the status of a job that had run and was erased
C8_Witness ==
    /\ call.op = "refresh" /\ ~call.started
    /\ job.status = -1 /\ job.completion # 0

(***************************************************************************)
(* C9: round trip.  Serializing a job (name, owner, ordered resources,     *)
(* attribute values of the template's steps) to the descriptor and         *)
(* deserializing the descriptor into a newly created job gives the same    *)
(* name, the same owner, the same resources in the same order and the      *)
(* same value of every attribute of the template.                          *)
(***************************************************************************)
C9_RoundTrip ==
    [][(/\ call'.op = "reopen"
        /\ call'.log[1] = Event("load", <<toLocalFile(job.url)>>)
        /\ Descriptor = <<JsonDocument(serializeToJSON(World))>>)
          => /\ call'.ret = "true"
             /\ job'.name = job.name
             /\ job'.user = job.user
             /\ job'.images = job.images
             /\ \A s \in DOMAIN job.steps : job'.steps[s].v = job.steps[s].v]_vars

\* a new job loaded a descriptor in which nothing has its default value
C9_Witness ==
    /\ call.op = "reopen" /\ call.ret = "true"
    /\ job.name = "n2" /\ job.user = "u2"
    /\ job.images = <<fromLocalFile("/i/b"), fromLocalFile("/i/a")>>
    /\ job.steps.feature_detection.v = "High"
    /\ job.steps.meshing.v = 3
    /\ job.steps.sfm.v = <<"/i/a", "/i/b">>

(***************************************************************************)
(* C10: whenever the size of the resource collection changes and at least  *)
(* one resource exists, the thumbnail is set to the location of the first  *)
(* resource in collection order.                                           *)
(***************************************************************************)
C10_ThumbnailIsFirstResource ==
    [][(Len(job'.images) # Len(job.images) /\ Len(job'.images) >= 1)
          => job'.thumbnail = job'.images[1]]_vars

(***************************************************************************)
(* Auto-persistence: a job whose name and resources change while the       *)
(* save() slot is connected, disconnected, connected again, and after      *)
(* load(const Job&) has replaced its collections.                          *)
(***************************************************************************)
Persistence ==
    \/ SetName
    \/ AddResource
    \/ AutoSaveOn
    \/ AutoSaveOff
    \/ LoadJob

SpecPersistence == Init /\ [][Persistence]_vars

\* the handlers that change what the descriptor records
Mutations == {"setUrl", "setName", "setDate", "setUser", "addResource", "setAttribute"}

\* how many times save() ran during a handler
Saves(log) == Cardinality({i \in DOMAIN log : log[i].e = "save"})

\* the last of the autoSaveOn()/autoSaveOff() calls was autoSaveOn(): the
\* job's own dataChanged signal, which no handler replaces, is connected
\* to save()
AutoSaveEnabled == \E i \in DOMAIN job.dataChanged : job.dataChanged[i] = "save"

(***************************************************************************)
(* C11: while auto-persistence is enabled and the job is not started,      *)
(* every mutation (a setter that changes a value, a change of the resource *)
(* collection, a change of an attribute value) runs save(), and the        *)
(* descriptor that save() writes is the serialization of the state after   *)
(* the mutation; while auto-persistence is suspended no mutation runs      *)
(* save().                                                                 *)
(***************************************************************************)
C11_MutationIsPersisted ==
    [][(call'.op \in Mutations /\ job' # job)
          => IF AutoSaveEnabled
             THEN isStarted(World)
                  \/ /\ HasEvent(call'.log, "save")
                     /\ HasEvent(call'.log, "write")
                           => Descriptor' = <<JsonDocument(serializeToJSON(World))>>'
             ELSE ~HasEvent(call'.log, "save")]_vars

(***************************************************************************)
(* Loading descriptors: a job that is renamed, given resources, moved      *)
(* between storage locations and saved, and that loads what the storage    *)
(* locations hold.                                                         *)
(***************************************************************************)
Loading ==
    \/ SetUrl
    \/ SetName
    \/ AddResource
    \/ Save
    \/ Load

SpecLoad == Init /\ [][Loading]_vars

\* load(url) cannot succeed on what storage location d holds
Unloadable(d) ==
    \/ ~disk[d].exists
    \/ disk[d].json = <<>>
    \/ disk[d].json[1].parse # "ok"

(***************************************************************************)
(* C12: a load(url) of a location whose directory is missing, whose        *)
(* job.json is missing or unreadable, or whose job.json is malformed       *)
(* returns false, and a load(url) that returns false leaves the job as it  *)
(* was: storage location, name, owner, resources and attribute values.     *)
(***************************************************************************)
C12_FailedLoadChangesNothing ==
    [][call'.op = "load"
          => /\ \A d \in Dirs :
                   (call'.log[1] = Event("load", <<d>>) /\ Unloadable(d))
                      => call'.ret = "false"
             /\ call'.ret = "false" => job' = job]_vars

(***************************************************************************)
(* C13: a save() that returns false has written nothing: every descriptor  *)
(* on the storage is what it was before the call, and when the job had no  *)
(* descriptor before, it has none afterwards and is still not stored.      *)
(***************************************************************************)
C13_FailedSaveKeepsDescriptor ==
    [][(call'.op = "save" /\ call'.ret = "false")
          => /\ ~HasEvent(call'.log, "write")
             /\ \A d \in Dirs : disk'[d].json = disk[d].json
             /\ job' = job
             /\ ~isStoredOnDisk(World) => ~isStoredOnDisk(World)']_vars

\* a save() of a job that is not started failed while the storage held an
\* older descriptor, which differs from what save() would have written
C13_Witness ==
    /\ call.op = "save" /\ call.ret = "false" /\ ~call.started
    /\ Descriptor # <<>>
    /\ Descriptor # <<JsonDocument(serializeToJSON(World))>>

(***************************************************************************)
(* C14: status reports are applied in the order of their refresh()         *)
(* requests.  refresh() waits for its worker, so the completion callback   *)
(* runs inside the refresh() that launched the worker: in every handler's  *)
(* run a report is delivered right after the launch of the worker of the   *)
(* refresh() before it and no other refresh() or report follows it, and    *)
(* completion and status change in no handler that has not called          *)
(* refresh().                                                              *)
(***************************************************************************)
C14_ReportsInRequestOrder ==
    [][/\ \A i \in DOMAIN call'.log :
             call'.log[i].e = "readProcessOutput"
                => /\ i > 2
                   /\ call'.log[i - 1].e = "statusWorker"
                   /\ call'.log[i - 2].e = "refresh"
                   /\ \A k \in DOMAIN call'.log :
                         k > i => call'.log[k].e \notin {"refresh", "statusWorker",
                                                        "readProcessOutput"}
       /\ (job'.completion # job.completion \/ job'.status # job.status)
             => HasEvent(call'.log, "refresh")]_vars

\* a refresh() of a started job, requested after the refresh() that start()
\* made, received one report and applied it
C14_Witness ==
    /\ call.op = "refresh" /\ call.started
    /\ Reports(call.log) = {<<"NormalExit",
                              JsonDocument([completion |-> JsonDouble(200),
                                            status |-> JsonDouble(42)])>>}
    /\ job.completion = 200 /\ job.status = 0

(***************************************************************************)
(* The started state: a job that is a row of the JobModel is given         *)
(* resources, moved between storage locations, saved, started, refreshed,  *)
(* erased and loaded.                                                      *)
(***************************************************************************)
Permanence ==
    \/ AddResource
    \/ SetUrl
    \/ Save
    \/ Start
    \/ Refresh
    \/ Erase
    \/ Load

SpecStarted == InitBound /\ [][Permanence]_vars

(***************************************************************************)
(* C15, as stated: once isStarted() is true it stays true after every      *)
(* later operation, erase() and load() included.                           *)
(***************************************************************************)
C15_StartedIsPermanent == [][isStarted(World) => isStarted(World)']_vars

(***************************************************************************)
(* C15, amended: once isStarted() is true it stays true after every        *)
(* operation other than erase() that leaves the storage location what it   *)
(* was: save, start, refresh and its callback, mutations, and a load of    *)
(* the job's own location.                                                 *)
(***************************************************************************)
C15_StartedUntilErasedOrMoved ==
    [][(isStarted(World) /\ call'.op # "erase" /\ job'.url = job.url)
          => isStarted(World)']_vars

\* start() was called on a started job, which is still started
C15_Witness ==
    /\ call.op = "start" /\ call.started /\ call.ret = "false"
    /\ isStarted(World)

(***************************************************************************)
(* Switching auto-persistence: autoSaveOn() and autoSaveOff() called in    *)
(* any order on a job whose name and resources change.                     *)
(***************************************************************************)
Switching ==
    \/ SetName
    \/ AddResource
    \/ AutoSaveOn
    \/ AutoSaveOff

SpecAutoSave == Init /\ [][Switching]_vars

(***************************************************************************)
(* C16: after any sequence of autoSaveOn() and autoSaveOff() calls, one    *)
(* mutation runs save() exactly once when the last of them was             *)
(* autoSaveOn() (the constructor's included) and not at all when it was    *)
(* autoSaveOff().                                                          *)
(***************************************************************************)
C16_OneSavePerMutation ==
    [][(call'.op \in Mutations /\ job' # job)
          => Saves(call'.log) = IF AutoSaveEnabled THEN 1 ELSE 0]_vars

(***************************************************************************)
(* C17: a load(url) runs no save() and writes no descriptor while it       *)
(* applies the descriptor's name, owner, resources and attribute values,   *)
(* and after a load(url) that has applied the descriptor save() is         *)
(* connected again: the next mutation runs save().                         *)
(***************************************************************************)
C17_LoadSuspendsAutoSave ==
    [][/\ call'.op = "load"
             => /\ ~HasEvent(call'.log, "save")
                /\ ~HasEvent(call'.log, "write")
                /\ \A d \in Dirs : disk'[d].json = disk[d].json
                /\ call'.ret = "true" => AutoSaveEnabled'
       /\ (call.op = "load" /\ call.ret = "true"
              /\ call'.op \in Mutations /\ job' # job)
             => Saves(call'.log) = 1]_vars

\* a load(url) added the descriptor's resources to those of the job without
\* saving: the descriptor at the job's location is not the serialization
\* of the job
C17_Witness ==
    /\ call.op = "load" /\ call.ret = "true"
    /\ Len(job.images) = 2
    /\ Descriptor # <<>>
    /\ Len(toArray(value(Descriptor[1].obj, "resources"))) = 1
    /\ AutoSaveEnabled

(***************************************************************************)
(* C18: a start() that gets past its save() and is refused because the     *)
(* job has fewer than 2 resources leaves the storage as it was before the  *)
(* call: a job without descriptor still has none, and no directory is      *)
(* created.                                                                *)
(***************************************************************************)
C18_RefusedStartChangesNothing ==
    [][(call'.op = "start" /\ Len(job.images) < 2 /\ HasEvent(call'.log, "write"))
          => disk' = disk]_vars

(***************************************************************************)
(* C19: a load(url) that applies a descriptor whose `resources` array has  *)
(* n entries to a job holding m resources leaves m+n resources: the m      *)
(* resources of the job in their order, then the locations of the array    *)
(* in array order.                                                         *)
(***************************************************************************)
C19_LoadAppendsResources ==
    [][(call'.op = "load" /\ call'.ret = "true")
          => \E d \in Dirs :
                /\ call'.log[1] = Event("load", <<d>>)
                /\ LET loaded == disk[d].json[1].obj.resources.v
                       m == Len(job.images)
                   IN /\ Len(job'.images) = m + Len(loaded)
                      /\ \A i \in 1..m : job'.images[i] = job.images[i]
                      /\ \A i \in DOMAIN loaded :
                            /\ job'.images[m + i].scheme = "file"
                            /\ job'.images[m + i].path = loaded[i].v]_vars

\* the descriptor listing /i/b was loaded into a job holding /i/a
C19_Witness ==
    /\ call.op = "load" /\ call.ret = "true"
    /\ job.images = <<fromLocalFile("/i/a"), fromLocalFile("/i/b")>>
    /\ Descriptor # <<>>
    /\ Descriptor[1].obj.resources.v = <<JsonString("/i/b")>>

(***************************************************************************)
(* C20: start() launches the start worker only when the job was not        *)
(* started at the beginning of the call, has at least 2 resources, and     *)
(* job.json has been written and build/ created before the launch, the     *)
(* descriptor being the serialization of the job's state; start() on a     *)
(* started job returns false, launches no worker and leaves the storage    *)
(* and the job as they were.                                               *)
(***************************************************************************)
C20_WorkerLaunchedFromSavedJob ==
    [][call'.op = "start"
          => /\ HasEvent(call'.log, "startWorker")
                   => /\ ~isStarted(World)
                      /\ Len(job'.images) >= 2
                      /\ Descriptor' = <<JsonDocument(serializeToJSON(World))>>'
                      /\ \E i, j, k \in DOMAIN call'.log :
                            /\ i < j /\ j < k
                            /\ call'.log[i] = Event("write", descriptorPath(World))
                            /\ call'.log[j].e = "mkbuild"
                            /\ call'.log[k].e = "startWorker"
                            /\ \A l \in 1..k : call'.log[l].e # "rmbuild"
             /\ isStarted(World)
                   => /\ call'.ret = "false"
                      /\ ~HasEvent(call'.log, "startWorker")
                      /\ disk' = disk /\ job' = job]_vars

\* the start worker was launched and crashed: the job it was launched for
\* has two resources and the descriptor start() wrote for it
C20_Witness ==
    /\ call.op = "start" /\ ~call.started
    /\ \E i \in DOMAIN call.log : call.log[i] = Event("startWorkerEnd", <<"CrashExit">>)
    /\ Len(job.images) = 2
    /\ Descriptor = <<JsonDocument(serializeToJSON(World))>>

====
